---------------------------- MODULE Spec2Model ----------------------------
(***************************************************************************)
(* Model of homework.py: the workout calculator (Running, SportsWalking,   *)
(* Swimming), its dispatcher read_package, its renderer                     *)
(* InfoMessage.get_message and the __main__ loop.                           *)
(*                                                                         *)
(* Numbers.  The readings are Python ints; every derived value is a Python *)
(* float.  Derived values are modelled as exact non-negative rationals      *)
(* [n, d] over arbitrary-precision naturals (TLC's integers are 32 bits     *)
(* wide and the walking formula needs more), so the model states the        *)
(* formulas without the floats' rounding error (about 1e-16 relative).      *)
(* Rationals are not reduced: they are compared with REq / RLe.             *)
(***************************************************************************)
EXTENDS Integers, Sequences, FiniteSets, TLC

(***************************************************************************)
(* Arbitrary-precision naturals: little-endian sequences of limbs in       *)
(* 0..Base-1 without leading zero limbs; zero is << >>.  They are written  *)
(* as functions, whose arguments TLC evaluates once, before the            *)
(* application (an operator's arguments are passed by name).               *)
(***************************************************************************)
Base == 10 * 10
Big == Seq(Nat)

NatOf[k \in Nat] == IF k = 0 THEN << >> ELSE <<k % Base>> \o NatOf[k \div Base]

BigToInt[a \in Big] == IF a = << >> THEN 0 ELSE Head(a) + Base * BigToInt[Tail(a)]

Trim[a \in Big] ==
  IF a = << >> THEN << >>
  ELSE IF a[Len(a)] = 0 THEN Trim[SubSeq(a, 1, Len(a) - 1)] ELSE a

AddC[a \in Big, b \in Big, c \in Nat] ==
  IF a = << >> /\ b = << >> THEN (IF c = 0 THEN << >> ELSE <<c>>)
  ELSE LET s == (IF a = << >> THEN 0 ELSE Head(a))
                  + (IF b = << >> THEN 0 ELSE Head(b)) + c
       IN <<s % Base>> \o AddC[IF a = << >> THEN a ELSE Tail(a),
                               IF b = << >> THEN b ELSE Tail(b),
                               s \div Base]

BigAdd[a \in Big, b \in Big] == AddC[a, b, 0]

\* a - b - c for a >= b + c.
SubB[a \in Big, b \in Big, c \in Nat] ==
  IF a = << >> THEN << >>
  ELSE LET s == Head(a) - (IF b = << >> THEN 0 ELSE Head(b)) - c
       IN <<IF s < 0 THEN s + Base ELSE s>>
            \o SubB[Tail(a), IF b = << >> THEN b ELSE Tail(b),
                    IF s < 0 THEN 1 ELSE 0]

BigSub[a \in Big, b \in Big] == Trim[SubB[a, b, 0]]

\* a * k + c for one limb k.
MulC[a \in Big, k \in Nat, c \in Nat] ==
  IF a = << >> THEN (IF c = 0 THEN << >> ELSE <<c>>)
  ELSE LET s == Head(a) * k + c
       IN <<s % Base>> \o MulC[Tail(a), k, s \div Base]

BigMulSmall[a \in Big, k \in Nat] == IF k = 0 THEN << >> ELSE MulC[a, k, 0]

\* a * Base
ShiftLimb[a \in Big] == IF a = << >> THEN << >> ELSE <<0>> \o a

BigMul[a \in Big, b \in Big] ==
  IF a = << >> \/ b = << >> THEN << >>
  ELSE BigAdd[BigMulSmall[a, Head(b)], ShiftLimb[BigMul[a, Tail(b)]]]

\* a <= b, given that the limbs above position i agree.
LeFrom[a \in Big, b \in Big, i \in Nat] ==
  IF i = 0 THEN TRUE
  ELSE IF a[i] # b[i] THEN a[i] < b[i] ELSE LeFrom[a, b, i - 1]

BigLe[a \in Big, b \in Big] ==
  IF Len(a) # Len(b) THEN Len(a) < Len(b) ELSE LeFrom[a, b, Len(a)]

\* The digit k of a long division: b * k <= cur < b * (k + 1).
DigitOf[b \in Big, cur \in Big] ==
  CHOOSE k \in 0..(Base - 1) :
    /\ BigLe[BigMulSmall[b, k], cur]
    /\ ~BigLe[BigMulSmall[b, k + 1], cur]

\* Long division: [q, r] with a = q * b + r and r < b, for b # 0.
DivFrom[a \in Big, b \in Big, i \in Nat, q \in Big, r \in Big] ==
  IF i = 0 THEN [q |-> Trim[q], r |-> r]
  ELSE CHOOSE res \in
         {DivFrom[a, b, i - 1, <<p[2]>> \o q,
                  BigSub[p[1], BigMulSmall[b, p[2]]]] :
            p \in {<<c, DigitOf[b, c]>> : c \in {Trim[<<a[i]>> \o r]}}} : TRUE

BigDivMod[a \in Big, b \in Big] == DivFrom[a, b, Len(a), << >>, << >>]

(***************************************************************************)
(* Non-negative rationals [n, d], d # 0, not reduced.                      *)
(***************************************************************************)
Rational == [n : Big, d : Big]

\* Drops the low zero limbs the numerator and the denominator share (the value
\* is unchanged); keeps the products of decimal constants short.
Shorten[x \in Rational] ==
  IF x.n # << >> /\ Head(x.n) = 0 /\ Head(x.d) = 0
  THEN Shorten[[n |-> Tail(x.n), d |-> Tail(x.d)]]
  ELSE x

RAddF[x \in Rational, y \in Rational] ==
  Shorten[[n |-> BigAdd[BigMul[x.n, y.d], BigMul[y.n, x.d]],
           d |-> BigMul[x.d, y.d]]]
RMulF[x \in Rational, y \in Rational] ==
  Shorten[[n |-> BigMul[x.n, y.n], d |-> BigMul[x.d, y.d]]]
RDivF[x \in Rational, y \in Rational] ==
  Shorten[[n |-> BigMul[x.n, y.d], d |-> BigMul[x.d, y.n]]]
RLeF[x \in Rational, y \in Rational] ==
  BigLe[BigMul[x.n, y.d], BigMul[y.n, x.d]]

Rat(n, d) == [n |-> NatOf[n], d |-> NatOf[d]]
\* float(k) of a Python int k >= 0
R(k) == Rat(k, 1)
RAdd(x, y) == RAddF[x, y]
RMul(x, y) == RMulF[x, y]
\* x / y for y # 0
RDiv(x, y) == RDivF[x, y]
RLe(x, y) == RLeF[x, y]
REq(x, y) == RLeF[x, y] /\ RLeF[y, x]
RLt(x, y) == ~RLeF[y, x]
\* |x - y| <= e
RNear(x, y, e) == RLe(x, RAdd(y, e)) /\ RLe(y, RAdd(x, e))

\* The '.3f' presentation of format(), in thousandths: the value rounded to
\* the nearest thousandth.  When the exact value lies halfway between two
\* thousandths the float's rounding error decides the side (and ties-to-even
\* does when the float is exact), so both are possible.
Fmt3F[x \in Rational] ==
  LET qr == BigDivMod[BigMul[x.n, NatOf[1000]], x.d]
      q == BigToInt[qr.q]
      twice == BigAdd[qr.r, qr.r]
  IN IF twice = x.d THEN {q, q + 1}
     ELSE IF BigLe[x.d, twice] THEN {q + 1} ELSE {q}

Fmt3(x) == Fmt3F[x]

(***************************************************************************)
(* Class constants.                                                        *)
(***************************************************************************)
M_IN_KM == 1000
MIN_IN_H == 60
CM_IN_M == 100
CALORIES_MEAN_SPEED_MULTIPLIER == 18
WEIGHT_MULTIPLER == 2
CALORIES_MEAN_SPEED_SHIFT == Rat(179, 100)
CALORIES_WEIGHT_MULTIPLIER == Rat(35, 1000)
CALORIES_SPEED_HEIGHT_MULTIPLIER == Rat(29, 1000)
KMH_IN_MSEC == Rat(278, 1000)
SPEED_MEAN_MULTIPLER == Rat(11, 10)

\* Training.LEN_STEP, overridden by Swimming.
LEN_STEP(class) == IF class = "Swimming" THEN Rat(138, 100) ELSE Rat(65, 100)

(***************************************************************************)
(* Objects are attribute dictionaries (functions from attribute names):    *)
(* an attribute exists once it was assigned.  A method is an operator       *)
(* giving [self, ret, exc]: the object after the call, the value returned   *)
(* and the exception raised ("none" when it returned).                      *)
(***************************************************************************)
HasAttr(self, name) == name \in DOMAIN self
SetAttr(self, name, v) == (name :> v) @@ self
Returned(self, v) == [self |-> self, ret |-> v, exc |-> "none"]
Raised(self, e) == [self |-> self, ret |-> R(0), exc |-> e]

\* Op applied to the value of v: a local variable assigned once.
Bind(v, Op(_)) == CHOOSE r \in {Op(x) : x \in {v}} : TRUE

\* Training.__init__ (Running.__init__ only calls it).
Training_init(class, data) ==
  [class |-> class, action |-> data[1], duration |-> data[2],
   weight |-> data[3]]

SportsWalking_init(data) ==
  SetAttr(Training_init("SportsWalking", data), "height", data[4])

Swimming_init(data) ==
  SetAttr(SetAttr(Training_init("Swimming", data), "length_pool", data[4]),
          "count_pool", data[5])

\* Faulty variant: floor division (//) in place of the division by M_IN_KM.
get_distance_floordiv(self) ==
  Bind(Bind(RMul(R(self.action), LEN_STEP(self.class)),
            LAMBDA m : [n |-> BigDivMod[m.n, BigMul[m.d, NatOf[M_IN_KM]]].q,
                        d |-> NatOf[1]]),
       LAMBDA distance : Returned(SetAttr(self, "distance", distance), distance))

\* Training.get_distance
get_distance(self) ==
  Bind(RDiv(RMul(R(self.action), LEN_STEP(self.class)), R(M_IN_KM)),
       LAMBDA distance : Returned(SetAttr(self, "distance", distance), distance))

\* Faulty variant: the distance multiplied by the duration.
Training_get_mean_speed_times(self) ==
  Bind(get_distance(self), LAMBDA d :
    IF self.duration = 0 THEN Raised(d.self, "ZeroDivisionError")
    ELSE Bind(RMul(d.ret, R(self.duration)),
              LAMBDA speed : Returned(SetAttr(d.self, "speed", speed), speed)))

\* Training.get_mean_speed
Training_get_mean_speed(self) ==
  Bind(get_distance(self), LAMBDA d :
    IF self.duration = 0 THEN Raised(d.self, "ZeroDivisionError")
    ELSE Bind(RDiv(d.ret, R(self.duration)),
              LAMBDA speed : Returned(SetAttr(d.self, "speed", speed), speed)))

\* Swimming.get_mean_speed
Swimming_get_mean_speed(self) ==
  IF self.duration = 0 THEN Raised(self, "ZeroDivisionError")
  ELSE Bind(RDiv(RDiv(R(self.length_pool * self.count_pool), R(M_IN_KM)),
                 R(self.duration)),
            LAMBDA speed : Returned(SetAttr(self, "speed", speed), speed))

\* Faulty variant: Swimming does not override get_mean_speed.
get_mean_speed_no_override(self) == Training_get_mean_speed(self)

get_mean_speed(self) ==
  IF self.class = "Swimming" THEN Swimming_get_mean_speed(self)
  ELSE Training_get_mean_speed(self)

\* Faulty variant: the duration left in hours.
Running_get_spent_calories_hours(self) ==
  Bind(get_mean_speed(self), LAMBDA s :
    IF s.exc # "none" THEN s
    ELSE Bind(RMul(RDiv(RMul(RAdd(RMul(R(CALORIES_MEAN_SPEED_MULTIPLIER),
                                       s.ret),
                                  CALORIES_MEAN_SPEED_SHIFT),
                             R(self.weight)),
                        R(M_IN_KM)),
                   R(self.duration)),
              LAMBDA calories :
                Returned(SetAttr(s.self, "calories", calories), calories)))

\* Faulty variant: the duration converted to minutes in place, in the object.
Running_get_spent_calories_inplace(self) ==
  Bind(get_mean_speed(self), LAMBDA s :
    IF s.exc # "none" THEN s
    ELSE Bind(RMul(RDiv(RMul(RAdd(RMul(R(CALORIES_MEAN_SPEED_MULTIPLIER),
                                       s.ret),
                                  CALORIES_MEAN_SPEED_SHIFT),
                             R(self.weight)),
                        R(M_IN_KM)),
                   R(self.duration * MIN_IN_H)),
              LAMBDA calories :
                Returned(SetAttr(SetAttr(s.self, "duration",
                                         self.duration * MIN_IN_H),
                                 "calories", calories),
                         calories)))

\* Running.get_spent_calories
Running_get_spent_calories(self) ==
  Bind(get_mean_speed(self), LAMBDA s :
    IF s.exc # "none" THEN s
    ELSE Bind(RMul(RDiv(RMul(RAdd(RMul(R(CALORIES_MEAN_SPEED_MULTIPLIER),
                                       s.ret),
                                  CALORIES_MEAN_SPEED_SHIFT),
                             R(self.weight)),
                        R(M_IN_KM)),
                   R(self.duration * MIN_IN_H)),
              LAMBDA calories :
                Returned(SetAttr(s.self, "calories", calories), calories)))

\* Faulty variant: the speed in m/s not squared.
SportsWalking_get_spent_calories_unsquared(self) ==
  Bind(get_mean_speed(self), LAMBDA s :
    IF s.exc # "none" THEN s
    ELSE IF self.height = 0 THEN Raised(s.self, "ZeroDivisionError")
    ELSE Bind(RMul(RAdd(RMul(CALORIES_WEIGHT_MULTIPLIER, R(self.weight)),
                        RMul(RMul(RDiv(RMul(s.ret, KMH_IN_MSEC),
                                       RDiv(R(self.height), R(CM_IN_M))),
                                  CALORIES_SPEED_HEIGHT_MULTIPLIER),
                             R(self.weight))),
                   R(self.duration * MIN_IN_H)),
              LAMBDA calories :
                Returned(SetAttr(s.self, "calories", calories), calories)))

\* SportsWalking.get_spent_calories
SportsWalking_get_spent_calories(self) ==
  Bind(get_mean_speed(self), LAMBDA s :
    IF s.exc # "none" THEN s
    ELSE IF self.height = 0 THEN Raised(s.self, "ZeroDivisionError")
    ELSE Bind(RMul(RAdd(RMul(CALORIES_WEIGHT_MULTIPLIER, R(self.weight)),
                        RMul(RMul(RDiv(Bind(RMul(s.ret, KMH_IN_MSEC),
                                            LAMBDA msec : RMul(msec, msec)),
                                       RDiv(R(self.height), R(CM_IN_M))),
                                  CALORIES_SPEED_HEIGHT_MULTIPLIER),
                             R(self.weight))),
                   R(self.duration * MIN_IN_H)),
              LAMBDA calories :
                Returned(SetAttr(s.self, "calories", calories), calories)))

\* Swimming.get_spent_calories
Swimming_get_spent_calories(self) ==
  Bind(get_mean_speed(self), LAMBDA s :
    IF s.exc # "none" THEN s
    ELSE Bind(RMul(RMul(RMul(RAdd(s.ret, SPEED_MEAN_MULTIPLER),
                             R(WEIGHT_MULTIPLER)),
                        R(self.weight)),
                   R(self.duration)),
              LAMBDA calories :
                Returned(SetAttr(s.self, "calories", calories), calories)))

get_spent_calories(self) ==
  CASE self.class = "Running" -> Running_get_spent_calories(self)
    [] self.class = "SportsWalking" -> SportsWalking_get_spent_calories(self)
    [] self.class = "Swimming" -> Swimming_get_spent_calories(self)

\* InfoMessage.__init__
InfoMessage(training_type, duration, distance, speed, calories) ==
  [training_type |-> training_type, duration |-> duration,
   distance |-> distance, speed |-> speed, calories |-> calories]

NoInfo == InfoMessage("None", 0, R(0), R(0), R(0))

\* Faulty variant: the base class's name.
class_name_base(self) == "Training"

\* self.__class__.__name__
class_name(self) == self.class

\* Faulty variant: a division by zero is swallowed and the record filled with zeros.
show_training_info_swallow(self) ==
  Bind(get_distance(self), LAMBDA d :
    Bind(get_mean_speed(d.self), LAMBDA s :
      Bind(IF s.exc # "none" THEN s ELSE get_spent_calories(s.self), LAMBDA c :
        [self |-> c.self,
         ret |-> InfoMessage(class_name(self), self.duration, d.ret,
                             IF s.exc # "none" THEN R(0) ELSE s.ret,
                             IF c.exc # "none" THEN R(0) ELSE c.ret),
         exc |-> "none"])))

\* Training.show_training_info: the arguments of InfoMessage are evaluated
\* left to right, each method on the object the one before left.
show_training_info(self) ==
  Bind(get_distance(self), LAMBDA d :
    Bind(get_mean_speed(d.self), LAMBDA s :
      IF s.exc # "none" THEN [self |-> s.self, ret |-> NoInfo, exc |-> s.exc]
      ELSE Bind(get_spent_calories(s.self), LAMBDA c :
        IF c.exc # "none" THEN [self |-> c.self, ret |-> NoInfo, exc |-> c.exc]
        ELSE [self |-> c.self,
              ret |-> InfoMessage(class_name(self), self.duration,
                                  d.ret, s.ret, c.ret),
              exc |-> "none"])))

\* InfoMessage.get_message: the line's five placeholders, the numbers in
\* thousandths as '.3f' prints them; the set of the lines possible.
get_message(self) ==
  {[training_type |-> self.training_type, duration |-> a, distance |-> b,
    speed |-> c, calories |-> d] :
     a \in Fmt3(R(self.duration)), b \in Fmt3(self.distance),
     c \in Fmt3(self.speed), d \in Fmt3(self.calories)}

(***************************************************************************)
(* The dispatcher.                                                         *)
(***************************************************************************)
\* Faulty variant: two classes exchanged.
workout_types_swapped ==
  [SWM |-> "Swimming", RUN |-> "SportsWalking", WLK |-> "Running"]

workout_types == [SWM |-> "Swimming", RUN |-> "Running", WLK |-> "SportsWalking"]

\* The number of positional parameters of the class's __init__.
Arity(class) ==
  CASE class = "Running" -> 3
    [] class = "SportsWalking" -> 4
    [] class = "Swimming" -> 5

NoTraining == [class |-> "None"]

\* read_package: a KeyError from the dictionary lookup, a TypeError from the
\* call of the class with too few or too many arguments.
read_package(workout_type, data) ==
  IF workout_type \notin DOMAIN workout_types
  THEN [ret |-> NoTraining, exc |-> "KeyError"]
  ELSE LET class == workout_types[workout_type]
       IN IF Len(data) # Arity(class)
          THEN [ret |-> NoTraining, exc |-> "TypeError"]
          ELSE [ret |-> CASE class = "Running" -> Training_init(class, data)
                          [] class = "SportsWalking" -> SportsWalking_init(data)
                          [] class = "Swimming" -> Swimming_init(data),
                exc |-> "none"]

(***************************************************************************)
(* The inputs.                                                             *)
(***************************************************************************)
Package(workout_type, data) == [workout_type |-> workout_type, data |-> data]

\* The list of the __main__ block.
PACKAGES ==
  << Package("SWM", <<720, 1, 80, 25, 40>>),
     Package("RUN", <<15000, 1, 75>>),
     Package("WLK", <<9000, 1, 75, 180>>) >>

MaxAction == 2
MaxDuration == 2
MaxCount == 1
Actions == 0..MaxAction
Durations == 0..MaxDuration
Weights == {75, 80}
Heights == {0, 180}
PoolLengths == {25}
PoolCounts == 0..MaxCount

RunData == {<<a, t, w>> : a \in Actions, t \in Durations, w \in Weights}
WalkData == {r \o <<h>> : r \in RunData, h \in Heights}
SwimData == {r \o <<l, c>> : r \in RunData, l \in PoolLengths, c \in PoolCounts}

\* Readings of the right arity for their code.
ValidPackages ==
  {Package("RUN", d) : d \in RunData}
    \cup {Package("WLK", d) : d \in WalkData}
    \cup {Package("SWM", d) : d \in SwimData}
    \cup {PACKAGES[k] : k \in 1..Len(PACKAGES)}

\* Unknown codes and readings of the wrong arity.
SampleData ==
  {PACKAGES[k].data : k \in 1..Len(PACKAGES)} \cup {<< >>, <<1, 1>>, <<1, 1, 75, 180, 25, 40>>}

InvalidPackages ==
  {Package(c, d) : c \in {"RUN", "WLK", "SWM", "XXX", "run", ""}, d \in SampleData}
    \ ValidPackages

AllPackages == ValidPackages \cup InvalidPackages

\* The lists a run is started on: the __main__ list, a single package, and the
\* __main__ list with one entry replaced.
PackageLists ==
  {PACKAGES} \cup {<<p>> : p \in AllPackages}
    \cup {[PACKAGES EXCEPT ![k] = p] : k \in 1..Len(PACKAGES), p \in AllPackages}

(***************************************************************************)
(* The program: the __main__ loop over packages.                           *)
(***************************************************************************)
VARIABLES
  packages,   \* the list iterated
  i,          \* the index of the entry in hand (1-based)
  pc,         \* "read_package", "main", "done", "raised"; "call" under SpecCalls
  training,   \* the training object in hand
  info,       \* the InfoMessage of the last main()
  stdout,     \* the lines printed
  exc,        \* the exception that ended the run, "none" without one
  returned,   \* SpecCalls: the values each method returned so far
  calls       \* SpecCalls: the number of method calls made

vars == <<packages, i, pc, training, info, stdout, exc, returned, calls>>

NoReturns == [distance |-> {}, speed |-> {}, calories |-> {}]

Init ==
  /\ packages \in PackageLists
  /\ i = 1
  /\ pc = "read_package"
  /\ training = NoTraining
  /\ info = NoInfo
  /\ stdout = << >>
  /\ exc = "none"
  /\ returned = NoReturns
  /\ calls = 0

\* training = read_package(workout_type, data)
ReadPackage ==
  /\ pc = "read_package"
  /\ \E r \in {read_package(packages[i].workout_type, packages[i].data)} :
        IF r.exc # "none"
        THEN /\ exc' = r.exc
             /\ pc' = "raised"
             /\ UNCHANGED training
        ELSE /\ training' = r.ret
             /\ pc' = "main"
             /\ UNCHANGED exc
  /\ UNCHANGED <<packages, i, info, stdout, returned, calls>>

\* Faulty variant: the line put before the lines printed so far.
Main_prepend ==
  /\ pc = "main"
  /\ \E r \in {show_training_info(training)} :
        IF r.exc # "none"
        THEN /\ training' = r.self
             /\ exc' = r.exc
             /\ pc' = "raised"
             /\ UNCHANGED <<i, info, stdout>>
        ELSE /\ training' = r.self
             /\ info' = r.ret
             /\ \E line \in get_message(r.ret) : stdout' = <<line>> \o stdout
             /\ i' = i + 1
             /\ pc' = IF i = Len(packages) THEN "done" ELSE "read_package"
             /\ UNCHANGED exc
  /\ UNCHANGED <<packages, returned, calls>>

\* main(training): the record, its line printed, and the loop's step to the
\* next entry.
Main ==
  /\ pc = "main"
  /\ \E r \in {show_training_info(training)} :
        IF r.exc # "none"
        THEN /\ training' = r.self
             /\ exc' = r.exc
             /\ pc' = "raised"
             /\ UNCHANGED <<i, info, stdout>>
        ELSE /\ training' = r.self
             /\ info' = r.ret
             /\ \E line \in get_message(r.ret) : stdout' = Append(stdout, line)
             /\ i' = i + 1
             /\ pc' = IF i = Len(packages) THEN "done" ELSE "read_package"
             /\ UNCHANGED exc
  /\ UNCHANGED <<packages, returned, calls>>

Next == ReadPackage \/ Main

Spec == Init /\ [][Next]_vars

\* The interpreter runs the script to its end.
LiveSpec == Spec /\ WF_vars(Next)

(***************************************************************************)
(* Method calls on one training object, in any order, up to MaxCalls.      *)
(***************************************************************************)
MaxCalls == 3

InitCalls ==
  /\ packages \in {<<p>> : p \in ValidPackages}
  /\ i = 1
  /\ pc = "call"
  /\ training = read_package(packages[1].workout_type, packages[1].data).ret
  /\ info = NoInfo
  /\ stdout = << >>
  /\ exc = "none"
  /\ returned = NoReturns
  /\ calls = 0

Call(result, name) ==
  /\ pc = "call"
  /\ calls < MaxCalls
  /\ calls' = calls + 1
  /\ \E r \in {result} :
        /\ training' = r.self
        /\ IF r.exc # "none"
           THEN /\ exc' = r.exc
                /\ pc' = "raised"
                /\ UNCHANGED returned
           ELSE /\ returned' = [returned EXCEPT ![name] = @ \cup {r.ret}]
                /\ UNCHANGED <<exc, pc>>
  /\ UNCHANGED <<packages, i, info, stdout>>

CallGetDistance == Call(get_distance(training), "distance")
CallGetMeanSpeed == Call(get_mean_speed(training), "speed")
CallGetSpentCalories == Call(get_spent_calories(training), "calories")

CallShowTrainingInfo ==
  /\ pc = "call"
  /\ calls < MaxCalls
  /\ calls' = calls + 1
  /\ \E r \in {show_training_info(training)} :
        /\ training' = r.self
        /\ IF r.exc # "none"
           THEN /\ exc' = r.exc
                /\ pc' = "raised"
                /\ UNCHANGED <<returned, info>>
           ELSE /\ info' = r.ret
                /\ returned' =
                     [distance |-> returned.distance \cup {r.ret.distance},
                      speed |-> returned.speed \cup {r.ret.speed},
                      calories |-> returned.calories \cup {r.ret.calories}]
                /\ UNCHANGED <<exc, pc>>
  /\ UNCHANGED <<packages, i, stdout>>

NextCalls ==
  \/ CallGetDistance
  \/ CallGetMeanSpeed
  \/ CallGetSpentCalories
  \/ CallShowTrainingInfo

SpecCalls == InitCalls /\ [][NextCalls]_vars

(***************************************************************************)
(* The properties checked.  They are stated on the packages and on what    *)
(* the run left behind, with the numbers written out.                      *)
(***************************************************************************)
Codes == {"RUN", "WLK", "SWM"}

ExpectedArity(code) ==
  CASE code = "RUN" -> 3 [] code = "WLK" -> 4 [] code = "SWM" -> 5

\* A recognized code with a reading of its arity.
WellFormed(p) ==
  p.workout_type \in Codes /\ Len(p.data) = ExpectedArity(p.workout_type)

\* The object the reading is bound to, attribute by attribute.
ExpectedObject(p) ==
  CASE p.workout_type = "RUN" ->
         [class |-> "Running", action |-> p.data[1], duration |-> p.data[2],
          weight |-> p.data[3]]
    [] p.workout_type = "WLK" ->
         [class |-> "SportsWalking", action |-> p.data[1],
          duration |-> p.data[2], weight |-> p.data[3], height |-> p.data[4]]
    [] p.workout_type = "SWM" ->
         [class |-> "Swimming", action |-> p.data[1], duration |-> p.data[2],
          weight |-> p.data[3], length_pool |-> p.data[4],
          count_pool |-> p.data[5]]

\* info is the record of the entry before i, once one was processed.
HasRecord == i > 1
LastPackage == packages[i - 1]

\* C1: read_package fails (KeyError for an unknown code, TypeError for a
\* reading of the wrong arity) and leaves no new training object exactly when
\* the code is not RUN, WLK or SWM or the reading has not the kind's arity;
\* otherwise it returns the object of the mapped class with the reading bound
\* positionally.
C1_ReadPackageContract ==
  [][pc = "read_package" =>
       IF WellFormed(packages[i])
       THEN /\ pc' = "main"
            /\ exc' = "none"
            /\ training' = ExpectedObject(packages[i])
       ELSE /\ pc' = "raised"
            /\ exc' = (IF packages[i].workout_type \in Codes
                       THEN "TypeError" ELSE "KeyError")
            /\ training' = training]_vars

\* A wrong-arity second entry failed and the first entry's object is still the
\* one in hand.
C1_Witness ==
  /\ pc = "raised"
  /\ exc = "TypeError"
  /\ i = 2
  /\ training.class = "Swimming"

LenStepOf(code) == IF code = "SWM" THEN Rat(138, 100) ELSE Rat(65, 100)

\* C2 as stated: for every kind the record has distance = LEN_STEP * action /
\* 1000 and speed * duration = distance.
C2_AsStated ==
  HasRecord =>
    /\ REq(info.distance,
           RDiv(RMul(LenStepOf(LastPackage.workout_type),
                     R(LastPackage.data[1])), R(1000)))
    /\ REq(RMul(info.speed, R(info.duration)), info.distance)

\* C2 (amended): every record has distance = LEN_STEP * action / 1000; a
\* Running or SportsWalking record has speed = distance / duration (speed *
\* duration = distance); a Swimming record has speed = length_pool *
\* count_pool / 1000 / duration, whatever its distance.
C2_DerivedValues ==
  HasRecord =>
    /\ info.duration = LastPackage.data[2]
    /\ info.duration # 0
    /\ REq(info.distance,
           RDiv(RMul(LenStepOf(LastPackage.workout_type),
                     R(LastPackage.data[1])), R(1000)))
    /\ IF LastPackage.workout_type = "SWM"
       THEN REq(RMul(info.speed, R(1000 * info.duration)),
                R(LastPackage.data[4] * LastPackage.data[5]))
       ELSE REq(RMul(info.speed, R(info.duration)), info.distance)

\* A walking record with a positive distance over two hours.
C2_Witness ==
  /\ HasRecord
  /\ LastPackage.workout_type = "WLK"
  /\ LastPackage.data[1] > 0
  /\ LastPackage.data[2] = 2

RunExample == Package("RUN", <<15000, 1, 75>>)

\* C3 as stated: RUN 15000, 1, 75 gives 9.75 km, 9.75 km/h and 981.0 kcal
\* within 0.1.
C3_AsStated ==
  (HasRecord /\ LastPackage = RunExample) =>
    /\ REq(info.distance, Rat(975, 100))
    /\ REq(info.speed, Rat(975, 100))
    /\ RNear(info.calories, R(981), Rat(1, 10))

\* C3 (amended): RUN 15000, 1, 75 gives 9.75 km, 9.75 km/h and
\* (18 * 9.75 + 1.79) * 75 / 1000 * (1 * 60) = 797.805 kcal.
C3_RunExample ==
  (HasRecord /\ LastPackage = RunExample) =>
    /\ REq(info.distance, Rat(975, 100))
    /\ REq(info.speed, Rat(975, 100))
    /\ REq(info.calories, Rat(797805, 1000))
    /\ stdout[i - 1].calories = 797805

C3_Witness == HasRecord /\ LastPackage = RunExample /\ pc = "read_package"

SwimExample == Package("SWM", <<720, 1, 80, 25, 40>>)

\* The speed and the calories of a Swimming reading (class Swimming bound to
\* data).
SwimSpeed(data) == get_mean_speed(Swimming_init(data)).ret
SwimCalories(data) == get_spent_calories(Swimming_init(data)).ret

\* C4: a Swimming record has speed = length_pool * count_pool / 1000 /
\* duration and calories = (speed + 1.1) * 2 * weight * duration; a reading
\* that differs only in its action count has the same speed and calories;
\* SWM 720, 1, 80, 25, 40 gives 1.0 km/h and 336.0 kcal.
C4_Swimming ==
  (HasRecord /\ LastPackage.workout_type = "SWM") =>
    LET data == LastPackage.data
    IN /\ REq(info.speed,
              RDiv(RDiv(R(data[4] * data[5]), R(1000)), R(data[2])))
       /\ REq(info.calories,
              RMul(RMul(RMul(RAdd(info.speed, Rat(11, 10)), R(2)),
                        R(data[3])),
                   R(data[2])))
       /\ \A a \in Actions \cup {720, 721} :
            /\ REq(SwimSpeed([data EXCEPT ![1] = a]), info.speed)
            /\ REq(SwimCalories([data EXCEPT ![1] = a]), info.calories)
       /\ LastPackage = SwimExample =>
            /\ REq(info.speed, R(1))
            /\ REq(info.calories, R(336))
            /\ stdout[i - 1].speed = 1000
            /\ stdout[i - 1].calories = 336000

C4_Witness == HasRecord /\ LastPackage = SwimExample /\ pc = "main"

WalkExample == Package("WLK", <<9000, 1, 75, 180>>)

\* (0.035 * 75 + ((5.85 * 0.278)^2 / (180 / 100)) * 0.029 * 75) * (1 * 60)
WalkExampleCalories ==
  RMul(RAdd(RMul(Rat(35, 1000), R(75)),
            RMul(RMul(RDiv(RMul(RMul(Rat(585, 100), Rat(278, 1000)),
                                RMul(Rat(585, 100), Rat(278, 1000))),
                           RDiv(R(180), R(100))),
                      Rat(29, 1000)),
                 R(75))),
       R(60))

\* C5 as stated: WLK 9000, 1, 75, 180 gives 5.85, 5.85 and the formula's
\* calories, which are about 163.8 (within 1).
C5_AsStated ==
  (HasRecord /\ LastPackage = WalkExample) =>
    /\ REq(info.distance, Rat(585, 100))
    /\ REq(info.speed, Rat(585, 100))
    /\ REq(info.calories, WalkExampleCalories)
    /\ RNear(info.calories, Rat(1638, 10), R(1))

\* C5 (amended): WLK 9000, 1, 75, 180 gives 5.85, 5.85 and the formula's
\* calories, which are 349.251747525 (printed 349.252).
C5_WalkExample ==
  (HasRecord /\ LastPackage = WalkExample) =>
    /\ REq(info.distance, Rat(585, 100))
    /\ REq(info.speed, Rat(585, 100))
    /\ REq(info.calories, WalkExampleCalories)
    /\ RNear(info.calories, Rat(34925, 100), Rat(1, 100))
    /\ stdout[i - 1].calories = 349252

C5_Witness == HasRecord /\ LastPackage = WalkExample /\ pc = "done"

\* The readings on which a division of the formulas is by zero: duration 0,
\* and height 0 for walking.
DividesByZero(p) ==
  p.data[2] = 0 \/ (p.workout_type = "WLK" /\ p.data[4] = 0)

ClassOf(code) ==
  CASE code = "RUN" -> "Running"
    [] code = "WLK" -> "SportsWalking"
    [] code = "SWM" -> "Swimming"

\* Line k is the line of entry k: its kind and its duration.
LineOfEntry(k) ==
  /\ stdout[k].training_type = ClassOf(packages[k].workout_type)
  /\ stdout[k].duration = 1000 * packages[k].data[2]

\* C7: the run takes the entries in list order, prints one line per entry,
\* each after the entry's dispatch and before the next entry's, and the
\* __main__ list (SWM, RUN, WLK) ends with exactly three lines printed.
C7_RunOrder ==
  /\ [](/\ Len(stdout) = i - 1
        /\ \A k \in 1..Len(stdout) : LineOfEntry(k)
        /\ pc = "done" => i = Len(packages) + 1)
  /\ [][/\ stdout' # stdout =>
             /\ pc = "main"
             /\ training.class = ClassOf(packages[i].workout_type)
             /\ Len(stdout') = Len(stdout) + 1
             /\ SubSeq(stdout', 1, Len(stdout)) = stdout
             /\ i' = i + 1
        /\ pc' = "main" => pc = "read_package" /\ Len(stdout) = i - 1
        /\ i' # i => stdout' # stdout]_vars
  /\ (packages = PACKAGES) ~>
       (/\ pc = "done"
        /\ Len(stdout) = 3
        /\ stdout[1].training_type = "Swimming"
        /\ stdout[2].training_type = "Running"
        /\ stdout[3].training_type = "SportsWalking")

C7_Witness ==
  /\ packages = PACKAGES
  /\ pc = "done"
  /\ Len(stdout) = 3
  /\ stdout[1].calories = 336000

\* C8 as stated: the line's label is Running for RUN, Walking for WLK and
\* Swimming for SWM.
C8_AsStated ==
  \A k \in 1..Len(stdout) :
    stdout[k].training_type =
      (CASE packages[k].workout_type = "RUN" -> "Running"
         [] packages[k].workout_type = "WLK" -> "Walking"
         [] packages[k].workout_type = "SWM" -> "Swimming")

\* C8 (amended): the line's label is the class name: Running for RUN,
\* SportsWalking for WLK and Swimming for SWM.
C8_Labels ==
  \A k \in 1..Len(stdout) :
    stdout[k].training_type =
      (CASE packages[k].workout_type = "RUN" -> "Running"
         [] packages[k].workout_type = "WLK" -> "SportsWalking"
         [] packages[k].workout_type = "SWM" -> "Swimming")

C8_Witness ==
  /\ Len(stdout) = 3
  /\ packages[3].workout_type = "WLK"
  /\ stdout[3].training_type = "SportsWalking"

InputAttributes ==
  {"class", "action", "duration", "weight", "height", "length_pool",
   "count_pool"}

\* C10 as stated: a call of get_distance, get_mean_speed,
\* get_spent_calories or show_training_info changes no state of the object,
\* and every call returns the same distance, speed and calories.
C10_AsStated ==
  pc = "call" =>
    /\ training = ExpectedObject(packages[1])
    /\ \A m \in DOMAIN returned : Cardinality(returned[m]) <= 1

\* C10 (amended): the calls leave action, duration, weight, height,
\* length_pool and count_pool unchanged and return the same distance, speed
\* and calories every time, but they do change the object: they store their
\* results in its attributes distance, speed and calories.
C10_Purity ==
  /\ \A a \in DOMAIN ExpectedObject(packages[1]) :
       HasAttr(training, a) /\ training[a] = ExpectedObject(packages[1])[a]
  /\ DOMAIN training \subseteq InputAttributes \cup {"distance", "speed", "calories"}
  /\ \A m \in DOMAIN returned :
       /\ Cardinality(returned[m]) <= 1
       /\ HasAttr(training, m) => \A v \in returned[m] : v = training[m]
  /\ (calls > 0 /\ pc = "call") =>
       HasAttr(training, "distance") \/ HasAttr(training, "speed")

\* Three calls were made, all of get_spent_calories: it returned one value
\* and left distance, speed and calories stored in the object.
C10_Witness ==
  /\ calls = 3
  /\ pc = "call"
  /\ returned.distance = {} /\ returned.speed = {}
  /\ Cardinality(returned.calories) = 1
  /\ \A m \in DOMAIN returned : HasAttr(training, m)
  /\ training.class = "Running"

=============================================================================
